---- MODULE Spec2Model ----
(***************************************************************************)
(* The digital journal of digital_journal.py: the entry classifier         *)
(* (sentence_split, detect_keywords, extract_people,                       *)
(* JournalEntry.from_text) and the command line shell around it            *)
(* (main, add_entry, load_journal, save_journal).                          *)
(*                                                                         *)
(* A Python str is a sequence of one-character strings.  None is the       *)
(* empty sequence and a present optional value x is <<x>>.                 *)
(***************************************************************************)
EXTENDS Integers, Sequences, FiniteSets, TLC

(***************************************************************************)
(* Characters and the classes the regular expressions and str methods use. *)
(***************************************************************************)
UpperSeq ==
  <<"A", "B", "C", "D", "E", "F", "G", "H", "I", "J", "K", "L", "M",
    "N", "O", "P", "Q", "R", "S", "T", "U", "V", "W", "X", "Y", "Z">>

LowerSeq ==
  <<"a", "b", "c", "d", "e", "f", "g", "h", "i", "j", "k", "l", "m",
    "n", "o", "p", "q", "r", "s", "t", "u", "v", "w", "x", "y", "z">>

DigitSeq == <<"0", "1", "2", "3", "4", "5", "6", "7", "8", "9">>

\* [A-Z]
Upper == {UpperSeq[i] : i \in 1..Len(UpperSeq)}

\* [a-z]
Lower == {LowerSeq[i] : i \in 1..Len(LowerSeq)}

Digit == {DigitSeq[i] : i \in 1..Len(DigitSeq)}

\* \w of the re module
WordChar == Upper \cup Lower \cup Digit \cup {"_"}

\* \s of the re module, and what str.strip() removes
Whitespace == {" ", "\t", "\n"}

\* [.!?]
Terminal == {".", "!", "?"}

\* The characters of the model in code point order (what sorted() compares).
CodePointOrder ==
  <<"\t", "\n", " ", "!", "'", ",", "-", ".">> \o DigitSeq \o <<":", "?">>
    \o UpperSeq \o <<"_">> \o LowerSeq

CodePointRank ==
  [c \in {CodePointOrder[i] : i \in 1..Len(CodePointOrder)} |->
     CHOOSE i \in 1..Len(CodePointOrder) : CodePointOrder[i] = c]

LowerOf == [c \in Upper |-> LowerSeq[CHOOSE i \in 1..Len(UpperSeq) : UpperSeq[i] = c]]

Min(S) == CHOOSE x \in S : \A y \in S : x <= y

Max(S) == CHOOSE x \in S : \A y \in S : y <= x

Range(s) == {s[i] : i \in 1..Len(s)}

\* str.lower()
lower(s) == [i \in 1..Len(s) |-> IF s[i] \in Upper THEN LowerOf[s[i]] ELSE s[i]]

\* str.strip()
strip(s) ==
  LET kept == {i \in 1..Len(s) : s[i] \notin Whitespace}
  IN  IF kept = {} THEN <<>> ELSE SubSeq(s, Min(kept), Max(kept))

\* str < str: the first differing character decides, a proper prefix is smaller.
StrLess(a, b) ==
  \/ /\ Len(a) < Len(b)
     /\ SubSeq(b, 1, Len(a)) = a
  \/ \E i \in 1..Min({Len(a), Len(b)}) :
       /\ SubSeq(a, 1, i - 1) = SubSeq(b, 1, i - 1)
       /\ CodePointRank[a[i]] < CodePointRank[b[i]]

(***************************************************************************)
(* The vocabularies and the stop words.                                    *)
(***************************************************************************)
FEELING_KEYWORDS ==
  {
    <<"h", "a", "p", "p", "y">>,
    <<"j", "o", "y">>,
    <<"j", "o", "y", "f", "u", "l">>,
    <<"g", "l", "a", "d">>,
    <<"e", "x", "c", "i", "t", "e", "d">>,
    <<"c", "o", "n", "t", "e", "n", "t">>,
    <<"p", "e", "a", "c", "e", "f", "u", "l">>,
    <<"s", "a", "d">>,
    <<"u", "p", "s", "e", "t">>,
    <<"a", "n", "g", "r", "y">>,
    <<"f", "r", "u", "s", "t", "r", "a", "t", "e", "d">>,
    <<"a", "n", "x", "i", "o", "u", "s">>,
    <<"n", "e", "r", "v", "o", "u", "s">>,
    <<"w", "o", "r", "r", "i", "e", "d">>,
    <<"c", "a", "l", "m">>,
    <<"r", "e", "l", "a", "x", "e", "d">>,
    <<"t", "i", "r", "e", "d">>,
    <<"e", "x", "h", "a", "u", "s", "t", "e", "d">>,
    <<"s", "t", "r", "e", "s", "s", "e", "d">>,
    <<"g", "r", "a", "t", "e", "f", "u", "l">>,
    <<"t", "h", "a", "n", "k", "f", "u", "l">>,
    <<"l", "o", "n", "e", "l", "y">>,
    <<"c", "o", "n", "f", "i", "d", "e", "n", "t">>,
    <<"p", "r", "o", "u", "d">>,
    <<"h", "o", "p", "e", "f", "u", "l">>
  }

EVENT_KEYWORDS ==
  {
    <<"m", "e", "e", "t", "i", "n", "g">>,
    <<"b", "i", "r", "t", "h", "d", "a", "y">>,
    <<"a", "n", "n", "i", "v", "e", "r", "s", "a", "r", "y">>,
    <<"p", "a", "r", "t", "y">>,
    <<"p", "r", "e", "s", "e", "n", "t", "a", "t", "i", "o", "n">>,
    <<"c", "o", "n", "f", "e", "r", "e", "n", "c", "e">>,
    <<"i", "n", "t", "e", "r", "v", "i", "e", "w">>,
    <<"d", "e", "a", "d", "l", "i", "n", "e">>,
    <<"v", "a", "c", "a", "t", "i", "o", "n">>,
    <<"t", "r", "i", "p">>,
    <<"w", "e", "d", "d", "i", "n", "g">>,
    <<"g", "r", "a", "d", "u", "a", "t", "i", "o", "n">>,
    <<"c", "e", "l", "e", "b", "r", "a", "t", "i", "o", "n">>,
    <<"a", "p", "p", "o", "i", "n", "t", "m", "e", "n", "t">>,
    <<"g", "a", "m", "e">>,
    <<"p", "r", "a", "c", "t", "i", "c", "e">>,
    <<"c", "e", "r", "e", "m", "o", "n", "y">>
  }

HEALTH_KEYWORDS ==
  {
    <<"e", "x", "e", "r", "c", "i", "s", "e">>,
    <<"w", "o", "r", "k", "o", "u", "t">>,
    <<"g", "y", "m">>,
    <<"r", "u", "n">>,
    <<"r", "u", "n", "n", "i", "n", "g">>,
    <<"w", "a", "l", "k">>,
    <<"w", "a", "l", "k", "i", "n", "g">>,
    <<"y", "o", "g", "a">>,
    <<"m", "e", "d", "i", "t", "a", "t", "i", "o", "n">>,
    <<"d", "o", "c", "t", "o", "r">>,
    <<"d", "e", "n", "t", "i", "s", "t">>,
    <<"m", "e", "d", "i", "c", "i", "n", "e">>,
    <<"m", "e", "d", "i", "c", "a", "t", "i", "o", "n">>,
    <<"p", "i", "l", "l">>,
    <<"h", "e", "a", "d", "a", "c", "h", "e">>,
    <<"s", "t", "o", "m", "a", "c", "h">>,
    <<"f", "l", "u">>,
    <<"c", "o", "l", "d">>,
    <<"f", "e", "v", "e", "r">>,
    <<"p", "a", "i", "n">>,
    <<"a", "c", "h", "e">>,
    <<"i", "n", "j", "u", "r", "y">>,
    <<"t", "h", "e", "r", "a", "p", "y">>,
    <<"s", "l", "e", "e", "p">>,
    <<"r", "e", "s", "t">>,
    <<"h", "y", "d", "r", "a", "t", "e">>,
    <<"h", "y", "d", "r", "a", "t", "e", "d">>,
    <<"n", "u", "t", "r", "i", "t", "i", "o", "n">>,
    <<"d", "i", "e", "t">>
  }

SITUATION_KEYWORDS ==
  {
    <<"w", "o", "r", "k">>,
    <<"o", "f", "f", "i", "c", "e">>,
    <<"p", "r", "o", "j", "e", "c", "t">>,
    <<"s", "c", "h", "o", "o", "l">>,
    <<"c", "l", "a", "s", "s">>,
    <<"l", "e", "s", "s", "o", "n">>,
    <<"f", "a", "m", "i", "l", "y">>,
    <<"f", "r", "i", "e", "n", "d", "s">>,
    <<"h", "o", "m", "e">>,
    <<"t", "r", "a", "v", "e", "l">>,
    <<"c", "o", "m", "m", "u", "t", "e">>,
    <<"s", "t", "u", "d", "y">>,
    <<"e", "x", "a", "m">>,
    <<"s", "h", "o", "p", "p", "i", "n", "g">>,
    <<"e", "r", "r", "a", "n", "d">>,
    <<"c", "o", "o", "k", "i", "n", "g">>,
    <<"c", "l", "e", "a", "n", "i", "n", "g">>,
    <<"h", "o", "u", "s", "e">>,
    <<"w", "e", "a", "t", "h", "e", "r">>,
    <<"r", "a", "i", "n">>,
    <<"s", "u", "n", "n", "y">>,
    <<"s", "t", "o", "r", "m">>
  }

STOP_WORDS ==
  {
    <<"I">>,
    <<"W", "e">>,
    <<"M", "y">>,
    <<"T", "h", "e">>,
    <<"A">>,
    <<"A", "n">>,
    <<"I", "t">>,
    <<"H", "e">>,
    <<"S", "h", "e">>,
    <<"T", "h", "e", "y">>,
    <<"T", "o", "d", "a", "y">>,
    <<"T", "o", "n", "i", "g", "h", "t">>,
    <<"M", "o", "r", "n", "i", "n", "g">>,
    <<"E", "v", "e", "n", "i", "n", "g">>,
    <<"A", "f", "t", "e", "r", "n", "o", "o", "n">>,
    <<"L", "a", "t", "e", "r">>,
    <<"Y", "e", "s", "t", "e", "r", "d", "a", "y">>,
    <<"T", "o", "m", "o", "r", "r", "o", "w">>,
    <<"M", "o", "n", "d", "a", "y">>,
    <<"T", "u", "e", "s", "d", "a", "y">>,
    <<"W", "e", "d", "n", "e", "s", "d", "a", "y">>,
    <<"T", "h", "u", "r", "s", "d", "a", "y">>,
    <<"F", "r", "i", "d", "a", "y">>,
    <<"S", "a", "t", "u", "r", "d", "a", "y">>,
    <<"S", "u", "n", "d", "a", "y">>
  }

(***************************************************************************)
(* sentence_split                                                          *)
(***************************************************************************)
\* Mutant: the separator is any whitespace, the lookbehind forgotten.
SeparatorAt_AnyWhitespace(t, i) == t[i] \in Whitespace

\* (?<=[.!?])\s+ matches at i: a whitespace character right after . ! or ?
SeparatorAt(t, i) == i > 1 /\ t[i] \in Whitespace /\ t[i - 1] \in Terminal

\* \s+ is greedy: the last position of the whitespace run starting at i.
WhitespaceRunEnd(t, i) ==
  Min({e \in i..Len(t) : e = Len(t) \/ t[e + 1] \notin Whitespace})

\* re.split(r"(?<=[.!?])\s+", t) from position start on: the pieces between
\* the matches, found left to right, each search starting where the last
\* match ended.
RECURSIVE re_split(_, _)
re_split(t, start) ==
  LET found == {i \in start..Len(t) : SeparatorAt(t, i)}
  IN  IF found = {} THEN <<SubSeq(t, start, Len(t))>>
      ELSE <<SubSeq(t, start, Min(found) - 1)>>
             \o re_split(t, WhitespaceRunEnd(t, Min(found)) + 1)

IsNonBlank(s) == strip(s) # <<>>

sentence_split(text) ==
  LET sentences == re_split(strip(text), 1)
      kept == SelectSeq(sentences, IsNonBlank)
  IN  [i \in 1..Len(kept) |-> strip(kept[i])]

(***************************************************************************)
(* detect_keywords                                                         *)
(***************************************************************************)
IsWordAt(s, i) == i >= 1 /\ i <= Len(s) /\ s[i] \in WordChar

\* \b between s[i] and s[i+1] (i = 0: the start, i = Len(s): the end)
WordBoundary(s, i) == IsWordAt(s, i) # IsWordAt(s, i + 1)

\* Mutant: the word is searched as a substring, without the \b anchors.
re_search_word_Substring(word, s) ==
  \E i \in 1..(Len(s) - Len(word) + 1) : SubSeq(s, i, i + Len(word) - 1) = word

\* Mutant: the closing \b is forgotten, so the start of a longer word matches.
re_search_word_Prefix(word, s) ==
  \E i \in 1..(Len(s) - Len(word) + 1) :
    /\ SubSeq(s, i, i + Len(word) - 1) = word
    /\ WordBoundary(s, i - 1)

\* re.search(rf"\b{re.escape(word)}\b", s); the words are letters only, so
\* re.escape leaves them as they are.
re_search_word(word, s) ==
  \E i \in 1..(Len(s) - Len(word) + 1) :
    /\ s[i] = word[1]
    /\ SubSeq(s, i, i + Len(word) - 1) = word
    /\ WordBoundary(s, i - 1)
    /\ WordBoundary(s, i + Len(word) - 1)

detect_keywords(sentence, keywords) ==
  LET normalized == lower(sentence)
  IN  \E word \in keywords : re_search_word(word, normalized)

(***************************************************************************)
(* extract_people                                                          *)
(***************************************************************************)
\* [A-Z][a-z]+ from i: every position the token can end at.
TokenEnds(t, i) ==
  IF i <= Len(t) /\ t[i] \in Upper
  THEN {e \in (i + 1)..Len(t) : \A k \in (i + 1)..e : t[k] \in Lower}
  ELSE {}

\* [A-Z][a-z]+(?:\s[A-Z][a-z]+)* from i: every position the group can end at.
RECURSIVE GroupEnds(_, _)
GroupEnds(t, i) ==
  LET first == TokenEnds(t, i)
      more == UNION {GroupEnds(t, e + 2) : e \in {x \in first : x < Len(t) /\ t[x + 1] \in Whitespace}}
  IN  first \cup more

\* NAME_PATTERN matched at i: the end of the match, 0 when there is none.
\* The quantifiers are greedy and a shorter choice inside the group never
\* leaves a longer match possible, so the first success is the longest.
NAME_PATTERN(t, i) ==
  LET ends == {e \in GroupEnds(t, i) : WordBoundary(t, e)}
  IN  IF WordBoundary(t, i - 1) /\ ends # {} THEN Max(ends) ELSE 0

\* NAME_PATTERN.finditer(text) from position start on: group 1 of the
\* non-overlapping matches, left to right.
RECURSIVE finditer(_, _)
finditer(t, start) ==
  LET found == {i \in start..Len(t) : NAME_PATTERN(t, i) > 0}
  IN  IF found = {} THEN <<>>
      ELSE LET i == Min(found)
               e == NAME_PATTERN(t, i)
           IN  <<SubSeq(t, i, e)>> \o finditer(t, e + 1)

\* sorted(S) for a set of strings
RECURSIVE sorted(_)
sorted(S) ==
  IF S = {} THEN <<>>
  ELSE LET m == CHOOSE x \in S : \A y \in S : x = y \/ StrLess(x, y)
       IN  <<m>> \o sorted(S \ {m})

\* Mutant: the matches are returned as found, neither de-duplicated nor sorted.
extract_people_TextOrder(text) ==
  LET NotStopWord(m) == m \notin STOP_WORDS
  IN  SelectSeq(finditer(text, 1), NotStopWord)

\* Mutant: a match is dropped when any word of it is a stop word.
extract_people_PerWordStop(text) ==
  LET HasStopWord(m) ==
        \E a \in 1..Len(m), b \in 1..Len(m) :
          /\ a <= b
          /\ SubSeq(m, a, b) \in STOP_WORDS
          /\ a = 1 \/ m[a - 1] \in Whitespace
          /\ b = Len(m) \/ m[b + 1] \in Whitespace
      candidates == {m \in Range(finditer(text, 1)) : ~HasStopWord(m)}
  IN  sorted(candidates)

extract_people(text) ==
  LET candidates == {m \in Range(finditer(text, 1)) : m \notin STOP_WORDS}
  IN  sorted(candidates)

(***************************************************************************)
(* datetime: a value is <<year, month, day, hour, minute, second>>.        *)
(***************************************************************************)
DaysInMonth(year, month) ==
  IF month = 2
  THEN IF year % 4 = 0 /\ (year % 100 # 0 \/ year % 400 = 0) THEN 29 ELSE 28
  ELSE IF month \in {4, 6, 9, 11} THEN 30 ELSE 31

IsDigits(s) == \A i \in 1..Len(s) : s[i] \in Digit

DigitValue == [c \in Digit |-> (CHOOSE i \in 1..Len(DigitSeq) : DigitSeq[i] = c) - 1]

RECURSIVE Number(_)
Number(s) ==
  IF s = <<>> THEN 0 ELSE 10 * Number(SubSeq(s, 1, Len(s) - 1)) + DigitValue[s[Len(s)]]

\* datetime.fromisoformat(s) for the extended format YYYY-MM-DD, optionally
\* followed by one separator character and HH:MM or HH:MM:SS.  The result is
\* <<value>>, or None where the call raises ValueError.
fromisoformat(s) ==
  LET n == Len(s)
      shape ==
        /\ n \in {10, 16, 19}
        /\ IsDigits(SubSeq(s, 1, 4)) /\ s[5] = "-"
        /\ IsDigits(SubSeq(s, 6, 7)) /\ s[8] = "-"
        /\ IsDigits(SubSeq(s, 9, 10))
        /\ n >= 16 => IsDigits(SubSeq(s, 12, 13)) /\ s[14] = ":" /\ IsDigits(SubSeq(s, 15, 16))
        /\ n = 19 => s[17] = ":" /\ IsDigits(SubSeq(s, 18, 19))
      year == Number(SubSeq(s, 1, 4))
      month == Number(SubSeq(s, 6, 7))
      day == Number(SubSeq(s, 9, 10))
      hour == IF n >= 16 THEN Number(SubSeq(s, 12, 13)) ELSE 0
      minute == IF n >= 16 THEN Number(SubSeq(s, 15, 16)) ELSE 0
      second == IF n = 19 THEN Number(SubSeq(s, 18, 19)) ELSE 0
  IN  IF /\ shape
         /\ year >= 1
         /\ month \in 1..12
         /\ day \in 1..DaysInMonth(year, month)
         /\ hour < 24 /\ minute < 60 /\ second < 60
      THEN << <<year, month, day, hour, minute, second>> >>
      ELSE <<>>

\* n written with at least width digits
RECURSIVE ZeroPadded(_, _)
ZeroPadded(n, width) ==
  IF width <= 1 /\ n < 10 THEN <<DigitSeq[n + 1]>>
  ELSE ZeroPadded(n \div 10, width - 1) \o <<DigitSeq[(n % 10) + 1]>>

\* datetime.isoformat(timespec="seconds")
isoformat(d) ==
  ZeroPadded(d[1], 4) \o <<"-">> \o ZeroPadded(d[2], 2) \o <<"-">> \o ZeroPadded(d[3], 2)
    \o <<"T">> \o ZeroPadded(d[4], 2) \o <<":">> \o ZeroPadded(d[5], 2)
    \o <<":">> \o ZeroPadded(d[6], 2)

(***************************************************************************)
(* JournalEntry                                                            *)
(***************************************************************************)
\* Mutant: a sentence already in the list is not added again.
RECURSIVE categorize_Unique(_, _)
categorize_Unique(sentences, keywords) ==
  IF sentences = <<>> THEN <<>>
  ELSE LET init == categorize_Unique(SubSeq(sentences, 1, Len(sentences) - 1), keywords)
           last == sentences[Len(sentences)]
       IN  IF detect_keywords(last, keywords) /\ last \notin Range(init)
           THEN Append(init, last)
           ELSE init

\* [s for s in sentences if detect_keywords(s, keywords)]
categorize(sentences, keywords) ==
  LET Matches(s) == detect_keywords(s, keywords)
  IN  SelectSeq(sentences, Matches)

\* Mutant: the sentences already categorized are not left out.
uncategorized_situations_All(sentences, categorized_sentences) ==
  LET Kept(s) == detect_keywords(s, SITUATION_KEYWORDS)
  IN  SelectSeq(sentences, Kept)

\* [s for s in sentences
\*  if s not in categorized_sentences and detect_keywords(s, SITUATION_KEYWORDS)]
uncategorized_situations(sentences, categorized_sentences) ==
  LET Kept(s) == s \notin categorized_sentences /\ detect_keywords(s, SITUATION_KEYWORDS)
  IN  SelectSeq(sentences, Kept)

\* JournalEntry.from_text(entry_text, timestamp); now is what datetime.now()
\* returns when it is called.
from_text(entry_text, timestamp, now) ==
  LET stamp == IF timestamp # <<>> THEN timestamp[1] ELSE now
      sentences == sentence_split(entry_text)
      feelings == categorize(sentences, FEELING_KEYWORDS)
      events == categorize(sentences, EVENT_KEYWORDS)
      health == categorize(sentences, HEALTH_KEYWORDS)
      categorized_sentences == Range(feelings \o events \o health)
      situations == uncategorized_situations(sentences, categorized_sentences)
      people == extract_people(entry_text)
  IN  [raw_entry |-> strip(entry_text),
       timestamp |-> isoformat(stamp),
       feelings |-> feelings,
       events |-> events,
       health |-> health,
       situations |-> situations,
       people |-> people]

\* JournalEntry.to_dict: the same fields under the same keys.
to_dict(entry) ==
  [timestamp |-> entry.timestamp,
   raw_entry |-> entry.raw_entry,
   feelings |-> entry.feelings,
   events |-> entry.events,
   health |-> entry.health,
   situations |-> entry.situations,
   people |-> entry.people]

(***************************************************************************)
(* The sentences of the end-to-end scenarios.                              *)
(***************************************************************************)
Scenario1Run ==
  <<"I", " ", "w", "e", "n", "t", " ", "f", "o", "r", " ", "a", " ", "r",
    "u", "n", " ", "t", "h", "i", "s", " ", "m", "o", "r", "n", "i", "n",
    "g", ".">>

Scenario1Happy ==
  <<"I", " ", "f", "e", "l", "t", " ", "r", "e", "a", "l", "l", "y", " ",
    "h", "a", "p", "p", "y", " ", "a", "f", "t", "e", "r", "w", "a", "r",
    "d", ".">>

Scenario1Mary ==
  <<"M", "a", "r", "y", " ", "j", "o", "i", "n", "e", "d", " ", "m", "e",
    ".">>

Scenario2Birthday ==
  <<"T", "o", "d", "a", "y", " ", "w", "a", "s", " ", "m", "y", " ", "b",
    "i", "r", "t", "h", "d", "a", "y", " ", "p", "a", "r", "t", "y", " ",
    "a", "n", "d", " ", "I", " ", "f", "e", "l", "t", " ", "s", "o", " ",
    "g", "r", "a", "t", "e", "f", "u", "l", ".">>

Scenario2Rained ==
  <<"I", "t", " ", "r", "a", "i", "n", "e", "d", " ", "a", "l", "l", " ",
    "d", "a", "y", " ", "t", "h", "o", "u", "g", "h", ".">>

(***************************************************************************)
(* State.                                                                  *)
(***************************************************************************)
VARIABLES
  text,       \* the text handed to the classifier
  typed,      \* how many fragments text was put together from
  applied,    \* the function applied to text ("none" while it is being typed)
  sentences,  \* the value of sentence_split(text)
  matched,    \* the value of detect_keywords(text, v) for each vocabulary v
  people,     \* the value of extract_people(text)
  entry,      \* the value of JournalEntry.from_text(text, ...), None before
  journal,    \* data/journal_entries.json: None while the file is missing
  argv,       \* the arguments and standard input of the last run of main
  outcome,    \* how the last run of main ended
  calls,      \* the functions the last run of main called, in order
  stdout,     \* the summaries main printed, one per saved entry
  runs        \* how many times main has run

textVars == <<text, typed, applied, sentences, matched, people, entry>>

mainVars == <<journal, argv, outcome, calls, stdout, runs>>

vars == <<text, typed, applied, sentences, matched, people, entry,
          journal, argv, outcome, calls, stdout, runs>>

Vocabulary ==
  [feeling |-> FEELING_KEYWORDS,
   event |-> EVENT_KEYWORDS,
   health |-> HEALTH_KEYWORDS,
   situation |-> SITUATION_KEYWORDS]

VocabularyNames == {"feeling", "event", "health", "situation"}

\* What datetime.now() can return during a run.
Clock == {<<2026, 11, 6, 7, 17, 0>>, <<2026, 11, 6, 7, 17, 1>>}

NoArgv == [entry |-> <<>>, timestamp |-> <<>>, stdin |-> <<>>]

Init ==
  /\ text = <<>>
  /\ typed = 0
  /\ applied = "none"
  /\ sentences = <<>>
  /\ matched = [v \in VocabularyNames |-> FALSE]
  /\ people = <<>>
  /\ entry = <<>>
  /\ journal = <<>>
  /\ argv = NoArgv
  /\ outcome = "none"
  /\ calls = <<>>
  /\ stdout = <<>>
  /\ runs = 0

(***************************************************************************)
(* The classifier on its own: a text is put together from fragments and    *)
(* one of the functions is applied to it.                                  *)
(***************************************************************************)
MaxFragments == 4

Type(fragment) ==
  /\ applied = "none"
  /\ typed < MaxFragments
  /\ text' = text \o fragment
  /\ typed' = typed + 1
  /\ UNCHANGED <<applied, sentences, matched, people, entry>>
  /\ UNCHANGED mainVars

SentenceSplit ==
  /\ applied = "none"
  /\ sentences' = sentence_split(text)
  /\ applied' = "sentence_split"
  /\ UNCHANGED <<text, typed, matched, people, entry>>
  /\ UNCHANGED mainVars

DetectKeywords ==
  /\ applied = "none"
  /\ matched' = [v \in VocabularyNames |-> detect_keywords(text, Vocabulary[v])]
  /\ applied' = "detect_keywords"
  /\ UNCHANGED <<text, typed, sentences, people, entry>>
  /\ UNCHANGED mainVars

ExtractPeople ==
  /\ applied = "none"
  /\ people' = extract_people(text)
  /\ applied' = "extract_people"
  /\ UNCHANGED <<text, typed, sentences, matched, entry>>
  /\ UNCHANGED mainVars

FromText ==
  /\ applied = "none"
  /\ \E now \in Clock : entry' = <<from_text(text, <<>>, now)>>
  /\ applied' = "from_text"
  /\ UNCHANGED <<text, typed, sentences, matched, people>>
  /\ UNCHANGED mainVars

Classifier(fragments) ==
  \/ \E fragment \in fragments : Type(fragment)
  \/ SentenceSplit
  \/ DetectKeywords
  \/ ExtractPeople
  \/ FromText

\* Fragments that put sentence ends and whitespace in every arrangement.
SplitFragments == {<<"a">>, <<".">>, <<"?">>, <<"!", "b">>, <<" ">>, <<"\n">>}

\* Fragments that put keywords inside longer words, next to non-letters and
\* in other letter cases.
KeywordFragments ==
  {<<"g", "a", "m", "e">>, <<"G", "a", "M", "E">>, <<"r">>, <<" ">>,
   <<"n", "i", "g", "h", "t">>, <<"_">>, <<"-">>}

\* Fragments that make sentences of several categories, and repeat them.
CategoryFragments ==
  {<<"h", "o", "m", "e">>, <<" ", "r", "u", "n">>,
   <<"s", "a", "d", " ", "p", "a", "r", "t", "y">>, <<".", " ">>, <<"x", ".", " ">>}

\* Fragments that make capitalised words, alone and in runs.
NameFragments ==
  {<<"B", "o", "b">>, <<"A", "l", "i", "c", "e">>, <<"I">>, <<"T", "o", "d", "a", "y">>,
   <<" ">>, <<"\n">>, <<"2">>, <<" ", "a", "n", "d", " ">>}

\* The texts of the end-to-end scenarios, whole and by sentence.
Scenario1 == Scenario1Run \o <<" ">> \o Scenario1Happy \o <<" ">> \o Scenario1Mary

Scenario2 == Scenario2Birthday \o <<" ">> \o Scenario2Rained

ScenarioFragments == {Scenario1, Scenario2Birthday, Scenario2Rained, <<" ">>}

SpecSplit == Init /\ [][Classifier(SplitFragments)]_vars

SpecKeywords == Init /\ [][Classifier(KeywordFragments)]_vars

SpecCategories == Init /\ [][Classifier(CategoryFragments)]_vars

SpecNames == Init /\ [][Classifier(NameFragments)]_vars

SpecScenarios == Init /\ [][Classifier(ScenarioFragments)]_vars

(***************************************************************************)
(* The journal file and the command line.                                  *)
(***************************************************************************)
\* Mutant: the file is never read back.
load_journal_Fresh(file) == [entries |-> <<>>]

\* load_journal(): file is the content of JOURNAL_FILE, None while it is missing.
load_journal(file) == IF file = <<>> THEN [entries |-> <<>>] ELSE file[1]

\* save_journal(data): the new content of JOURNAL_FILE.
save_journal(data) == <<data>>

\* add_entry(entry_text, timestamp): the file it leaves and the entry it returns.
add_entry(file, entry_text, timestamp, now) ==
  LET loaded == load_journal(file)
      new == from_text(entry_text, timestamp, now)
      \* journal.setdefault("entries", []).append(entry.to_dict())
      before == IF "entries" \in DOMAIN loaded THEN loaded.entries ELSE <<>>
      data == [k \in DOMAIN loaded \cup {"entries"} |->
                 IF k = "entries" THEN Append(before, to_dict(new)) ELSE loaded[k]]
  IN  [file |-> save_journal(data), entry |-> new]

\* Mutant: the entry is saved before the timestamp is checked.
main_SaveBeforeTimestampCheck(args, file, now) ==
  LET fromArgs == args.entry # <<>> /\ args.entry[1] # <<>>
      cancelled == ~fromArgs /\ args.stdin = <<>>
      entry_text == strip(IF fromArgs THEN args.entry[1] ELSE args.stdin[1])
      parses == args.timestamp # <<>> /\ args.timestamp[1] # <<>>
      timestamp == IF parses THEN fromisoformat(args.timestamp[1]) ELSE <<>>
      Exit(how) == [outcome |-> how, file |-> file, calls |-> <<>>, printed |-> <<>>]
      Saved(how, added) ==
        [outcome |-> how,
         file |-> added.file,
         calls |-> <<"add_entry", "load_journal", "from_text", "save_journal">>,
         printed |-> IF how = "saved" THEN <<to_dict(added.entry)>> ELSE <<>>]
  IN  IF cancelled THEN Exit("cancelled")
      ELSE IF entry_text = <<>> THEN Exit("no_entry")
      ELSE Saved(IF parses /\ timestamp = <<>> THEN "invalid_timestamp" ELSE "saved",
                 add_entry(file, entry_text, timestamp, now))

\* main() with the command line args (entry and timestamp, None when the
\* option is absent) and the standard input (None when reading it is
\* interrupted), on the journal file: how the run ends, the file it leaves,
\* the functions it called and what it printed.
main(args, file, now) ==
  LET fromArgs == args.entry # <<>> /\ args.entry[1] # <<>>
      cancelled == ~fromArgs /\ args.stdin = <<>>
      entry_text == strip(IF fromArgs THEN args.entry[1] ELSE args.stdin[1])
      parses == args.timestamp # <<>> /\ args.timestamp[1] # <<>>
      timestamp == IF parses THEN fromisoformat(args.timestamp[1]) ELSE <<>>
      Exit(how) == [outcome |-> how, file |-> file, calls |-> <<>>, printed |-> <<>>]
      Saved(added) ==
        [outcome |-> "saved",
         file |-> added.file,
         calls |-> <<"add_entry", "load_journal", "from_text", "save_journal">>,
         printed |-> <<to_dict(added.entry)>>]
  IN  IF cancelled THEN Exit("cancelled")
      ELSE IF entry_text = <<>> THEN Exit("no_entry")
      ELSE IF parses /\ timestamp = <<>> THEN Exit("invalid_timestamp")
      ELSE Saved(add_entry(file, entry_text, timestamp, now))

MaxRuns == 3

\* --entry
EntryArgs ==
  {<<>>, << <<>> >>, << <<" ", "\n">> >>,
   << <<"h", "o", "m", "e", " ", "r", "u", "n", ".">> >>,
   << <<" ", "B", "o", "b", " ", "s", "a", "d", ".", " ">> >>}

\* what is typed on standard input, None when the read is interrupted
StdinInputs == {<<>>, << <<"\n">> >>, << <<"x", ".", " ", "s", "a", "d", "\n">> >>}

\* --timestamp
TimestampArgs ==
  {<<>>, << <<>> >>,
   << <<"2", "0", "2", "4", "-", "0", "1", "-", "0", "2", "T", "0", "3", ":", "0", "4", ":", "0", "5">> >>,
   << <<"2", "0", "2", "4", "-", "0", "2", "-", "3", "0">> >>,
   << <<"n", "o", "w">> >>}

\* One run of the program.  Standard input is read only when --entry gives
\* no text.
Main(entryArg, timestampArg, stdin, now) ==
  /\ runs < MaxRuns
  /\ typed = 0 /\ applied = "none"
  /\ \E args \in {[entry |-> entryArg, timestamp |-> timestampArg, stdin |-> stdin]} :
       \E run \in {main(args, journal, now)} :
         /\ argv' = args
         /\ outcome' = run.outcome
         /\ journal' = run.file
         /\ calls' = run.calls
         /\ stdout' = stdout \o run.printed
  /\ runs' = runs + 1
  /\ UNCHANGED textVars

Next ==
  \E entryArg \in EntryArgs, timestampArg \in TimestampArgs, now \in Clock :
    IF entryArg # <<>> /\ entryArg[1] # <<>>
    THEN Main(entryArg, timestampArg, <<>>, now)
    ELSE \E stdin \in StdinInputs : Main(entryArg, timestampArg, stdin, now)

Spec == Init /\ [][Next]_vars

(***************************************************************************)
(* Vocabulary of the properties: the words of a text, trimming, joining,   *)
(* subsequences and string order, stated without the regular expressions   *)
(* of the program.                                                         *)
(***************************************************************************)
\* t[a..b] is a word of t: a maximal run of letters, digits and underscores.
IsWordSpan(t, a, b) ==
  /\ a <= b
  /\ \A k \in a..b : t[k] \in WordChar
  /\ a = 1 \/ t[a - 1] \notin WordChar
  /\ b = Len(t) \/ t[b + 1] \notin WordChar

WordsOf(t) ==
  {SubSeq(t, p[1], p[2]) :
     p \in {q \in (1..Len(t)) \X (1..Len(t)) : IsWordSpan(t, q[1], q[2])}}

\* Some word of s, letter case ignored, is in the vocabulary.
HasWholeWord(s, vocabulary) == WordsOf(lower(s)) \cap vocabulary # {}

\* part occurs in s at position i.
OccursAt(part, s, i) ==
  /\ i >= 1
  /\ i + Len(part) - 1 <= Len(s)
  /\ SubSeq(s, i, i + Len(part) - 1) = part

RECURSIVE TrimLeft(_)
TrimLeft(s) == IF s # <<>> /\ Head(s) \in Whitespace THEN TrimLeft(Tail(s)) ELSE s

RECURSIVE TrimRight(_)
TrimRight(s) ==
  IF s # <<>> /\ s[Len(s)] \in Whitespace THEN TrimRight(SubSeq(s, 1, Len(s) - 1)) ELSE s

Trimmed(s) == TrimRight(TrimLeft(s))

\* " ".join(ss)
RECURSIVE JoinWithSpace(_)
JoinWithSpace(ss) ==
  IF ss = <<>> THEN <<>>
  ELSE IF Len(ss) = 1 THEN ss[1]
  ELSE ss[1] \o <<" ">> \o JoinWithSpace(Tail(ss))

\* t from position i on, each whitespace run that immediately follows . ! or ?
\* replaced by one space.
RECURSIVE BoundariesNormalized(_, _)
BoundariesNormalized(t, i) ==
  IF i > Len(t) THEN <<>>
  ELSE IF i > 1 /\ t[i] \in Whitespace /\ t[i - 1] \in Terminal
       THEN LET rest == {j \in i..Len(t) : t[j] \notin Whitespace}
            IN  <<" ">> \o (IF rest = {} THEN <<>> ELSE BoundariesNormalized(t, Min(rest)))
       ELSE <<t[i]>> \o BoundariesNormalized(t, i + 1)

\* The elements of ss at the positions in idx, in order of position.
RECURSIVE AtPositions(_, _)
AtPositions(ss, idx) ==
  IF idx = {} THEN <<>>
  ELSE LET i == Min(idx) IN <<ss[i]>> \o AtPositions(ss, idx \ {i})

\* a sorts before b: lexicographic order of code points.
RECURSIVE SortsBefore(_, _)
SortsBefore(a, b) ==
  IF b = <<>> THEN FALSE
  ELSE IF a = <<>> THEN TRUE
  ELSE IF Head(a) = Head(b) THEN SortsBefore(Tail(a), Tail(b))
  ELSE CodePointRank[Head(a)] < CodePointRank[Head(b)]

(***************************************************************************)
(* Properties of the classifier.                                           *)
(***************************************************************************)
Classified == applied = "from_text" /\ entry # <<>>

\* C1: no sentence of the feelings, events or health list of an entry built
\* by from_text is in its situations list (sentences compared as strings).
C1_SituationsExcludeCategorized ==
  Classified =>
    \A s \in Range(entry[1].feelings) \cup Range(entry[1].events) \cup Range(entry[1].health) :
      s \notin Range(entry[1].situations)

\* A health sentence that also has a situation word was kept out of the
\* situations, which hold another sentence.
C1_Witness ==
  /\ Classified
  /\ \E s \in Range(entry[1].health) : HasWholeWord(s, SITUATION_KEYWORDS)
  /\ entry[1].situations # <<>>

\* C2 as amended: the second scenario text is classified with the birthday
\* sentence as its only event and only feeling, no health sentence, no
\* person and no situation ("rained" is not the word "rain").
C2_Scenario2 ==
  (Classified /\ text = Scenario2) =>
    /\ entry[1].events = <<Scenario2Birthday>>
    /\ entry[1].feelings = <<Scenario2Birthday>>
    /\ entry[1].health = <<>>
    /\ entry[1].situations = <<>>
    /\ entry[1].people = <<>>

C2_Witness == Classified /\ text = Scenario2 /\ entry[1].raw_entry = Scenario2

\* C2 as stated: the same, with situations = ["It rained all day though."].
C2_Scenario2AsStated ==
  (Classified /\ text = Scenario2) =>
    /\ entry[1].events = <<Scenario2Birthday>>
    /\ entry[1].feelings = <<Scenario2Birthday>>
    /\ entry[1].health = <<>>
    /\ entry[1].situations = <<Scenario2Rained>>
    /\ entry[1].people = <<>>

Gamer == <<"g", "a", "m", "e", "r">>

GameNight == <<"g", "a", "m", "e", " ", "n", "i", "g", "h", "t">>

\* C3: detect_keywords is true exactly when a word of the sentence, letter
\* case ignored, is a vocabulary word; "gamer" alone does not match the event
\* vocabulary and a sentence with the words "game night" in any case does.
C3_WholeWordMatch ==
  applied = "detect_keywords" =>
    /\ \A v \in VocabularyNames : matched[v] <=> HasWholeWord(text, Vocabulary[v])
    /\ text = Gamer => ~matched["event"]
    /\ (\E i \in 1..Len(text) :
          /\ OccursAt(GameNight, lower(text), i)
          /\ i = 1 \/ text[i - 1] \notin WordChar) => matched["event"]

\* A text with "game" inside a longer word, in mixed case, that does not match.
C3_Witness ==
  /\ applied = "detect_keywords"
  /\ \E i \in 1..Len(text) : OccursAt(Gamer, lower(text), i)
  /\ text # lower(text)
  /\ ~matched["event"]

\* One Titlecase word: an uppercase letter, then lowercase letters; at least
\* one of them when long is TRUE.
IsTitlecaseSpan(t, a, b, long) ==
  /\ IsWordSpan(t, a, b)
  /\ t[a] \in Upper
  /\ \A k \in (a + 1)..b : t[k] \in Lower
  /\ long => b > a

\* t[a..b] is a run of Titlecase words separated by whitespace; by exactly
\* one whitespace character when single is TRUE.
IsNameRun(t, a, b, long, single) ==
  /\ \E y \in a..b : IsTitlecaseSpan(t, a, y, long)
  /\ \E x \in a..b : IsTitlecaseSpan(t, x, b, long)
  /\ \A x \in a..b, y \in a..b : IsWordSpan(t, x, y) => IsTitlecaseSpan(t, x, y, long)
  /\ \A k \in a..b :
       t[k] \notin WordChar =>
         /\ t[k] \in Whitespace
         /\ single => (t[k - 1] \in WordChar /\ t[k + 1] \in WordChar)

\* The maximal runs of t.
NameRuns(t, long, single) ==
  {SubSeq(t, p[1], p[2]) :
     p \in {q \in (1..Len(t)) \X (1..Len(t)) :
              /\ IsNameRun(t, q[1], q[2], long, single)
              /\ \A x \in 1..q[1], y \in q[2]..Len(t) :
                   IsNameRun(t, x, y, long, single) => (x = q[1] /\ y = q[2])}}

\* C4 as amended: the names are exactly the maximal runs of Titlecase words
\* of two or more letters (an uppercase letter followed by one or more
\* lowercase letters) in which neighbours are separated by exactly one
\* whitespace character, minus the runs that are, whole, a stop word.
C4_NamesAreMaximalRuns ==
  applied = "extract_people" =>
    Range(people) = NameRuns(text, TRUE, TRUE) \ STOP_WORDS

\* A stop word on its own was dropped and the name two whitespace characters
\* after it was kept, as a run of its own.
C4_Witness ==
  /\ applied = "extract_people"
  /\ people = <<<<"B", "o", "b">>>>
  /\ OccursAt(<<"T", "o", "d", "a", "y">>, text, 1)
  /\ Len(text) = 10
  /\ text[6] \in Whitespace /\ text[7] \in Whitespace

\* C4 as stated: the runs are of Titlecase words (first letter uppercase, the
\* remaining letters, if any, lowercase) separated by whitespace.
C4_NamesAsStated ==
  applied = "extract_people" =>
    Range(people) = NameRuns(text, FALSE, FALSE) \ STOP_WORDS

BobAndAlice == <<"B", "o", "b", " ", "a", "n", "d", " ", "A", "l", "i", "c", "e">>

\* C5: the people list is in strictly ascending lexicographic order, whatever
\* the order and number of the occurrences in the text; "Bob and Alice" gives
\* ["Alice", "Bob"].
C5_PeopleStrictlyAscending ==
  applied = "extract_people" =>
    /\ \A i \in 1..(Len(people) - 1) : SortsBefore(people[i], people[i + 1])
    /\ text = BobAndAlice => people = <<<<"A", "l", "i", "c", "e">>, <<"B", "o", "b">>>>

\* Bob is named before Alice and listed after her.
C5_Witness ==
  /\ applied = "extract_people"
  /\ text = BobAndAlice
  /\ people = <<<<"A", "l", "i", "c", "e">>, <<"B", "o", "b">>>>

\* C6: the sentences joined with one space are the trimmed text with each
\* whitespace run right after . ! or ? replaced by one space; no sentence is
\* empty or starts or ends with whitespace; a text without . ! ? is one
\* sentence, the trimmed text; a blank text has no sentence.
C6_SplitRoundTrip ==
  applied = "sentence_split" =>
    /\ JoinWithSpace(sentences) = BoundariesNormalized(Trimmed(text), 1)
    /\ \A i \in 1..Len(sentences) :
         /\ sentences[i] # <<>>
         /\ sentences[i][1] \notin Whitespace
         /\ sentences[i][Len(sentences[i])] \notin Whitespace
    /\ (Range(text) \cap Terminal = {} /\ Trimmed(text) # <<>>) =>
         sentences = <<Trimmed(text)>>
    /\ Trimmed(text) = <<>> => sentences = <<>>

\* Two sentences whose boundary was a newline: the join differs from the text.
C6_Witness ==
  /\ applied = "sentence_split"
  /\ Len(sentences) >= 2
  /\ JoinWithSpace(sentences) # Trimmed(text)
  /\ text # Trimmed(text)

\* C9: feelings, events and health are each the split sentences that have a
\* word of that vocabulary, in source order with repeats; situations are the
\* split sentences that are in none of the three and have a situation word;
\* a sentence with no vocabulary word is in no list.
C9_ListsAreSubsequences ==
  Classified =>
    LET ss == sentence_split(text)
        Of(v) == {i \in 1..Len(ss) : HasWholeWord(ss[i], Vocabulary[v])}
        categorized == {ss[i] : i \in Of("feeling") \cup Of("event") \cup Of("health")}
        rest == {i \in Of("situation") : ss[i] \notin categorized}
    IN  /\ entry[1].feelings = AtPositions(ss, Of("feeling"))
        /\ entry[1].events = AtPositions(ss, Of("event"))
        /\ entry[1].health = AtPositions(ss, Of("health"))
        /\ entry[1].situations = AtPositions(ss, rest)
        /\ \A i \in 1..Len(ss) :
             (\A v \in VocabularyNames : i \notin Of(v)) =>
               ss[i] \notin Range(entry[1].feelings) \cup Range(entry[1].events)
                              \cup Range(entry[1].health) \cup Range(entry[1].situations)

\* A sentence in two lists, a situation, and a sentence in no list.
C9_Witness ==
  /\ Classified
  /\ Range(entry[1].feelings) \cap Range(entry[1].events) # {}
  /\ entry[1].situations # <<>>
  /\ Len(sentence_split(text)) >
       Cardinality(Range(entry[1].feelings) \cup Range(entry[1].events)
                     \cup Range(entry[1].health) \cup Range(entry[1].situations))

(***************************************************************************)
(* Properties of the command line program.                                 *)
(***************************************************************************)
\* C7: a run given a timestamp that does not parse ends in a validation
\* failure and saves no entry under the current time (a run interrupted
\* while reading standard input ends before any validation).
C7_InvalidTimestampRejected ==
  (/\ outcome \notin {"none", "cancelled"}
   /\ argv.timestamp # <<>>
   /\ fromisoformat(argv.timestamp[1]) = <<>>) =>
    outcome \in {"no_entry", "invalid_timestamp"}

\* C8: a run that rejects its input (no entry text, or a timestamp that does
\* not parse) calls neither add_entry nor the classifier and leaves the
\* journal file as it was.
C8_RejectedRunChangesNothing ==
  [][(runs' = runs + 1 /\ outcome' \in {"no_entry", "invalid_timestamp"}) =>
       (journal' = journal /\ calls' = <<>> /\ stdout' = stdout)]_vars

\* A run rejected for its timestamp after an entry was saved.
C8_Witness ==
  /\ outcome = "invalid_timestamp"
  /\ calls = <<>>
  /\ journal # <<>>
  /\ Len(journal[1].entries) >= 1

\* C10: starting from a missing file, the "entries" of the journal file are
\* the records of the successful add_entry calls (those main printed), in
\* call order.
C10_JournalHoldsSavedEntriesInOrder ==
  IF journal = <<>> THEN stdout = <<>>
  ELSE DOMAIN journal[1] = {"entries"} /\ journal[1].entries = stdout

\* Two different entries were saved, the older one first.
C10_Witness ==
  /\ journal # <<>>
  /\ Len(journal[1].entries) >= 2
  /\ journal[1].entries[1] # journal[1].entries[2]
  /\ journal[1].entries[Len(stdout)].raw_entry = strip(IF argv.stdin # <<>> THEN argv.stdin[1] ELSE argv.entry[1])

====
